---- MODULE Spec2Model ----
(***************************************************************************)
(* World-pop query tool: execute_query (analysis.py) driving one           *)
(* WorldPopAdvancedQuery (worldpop_helper.py) over http_get (req_http.py). *)
(*                                                                         *)
(* One behaviour is one call of execute_query: the two years are read,     *)
(* the range is validated, one statistics task is submitted per year, the  *)
(* tasks are polled head-first until each is finished, and the terminal    *)
(* responses are re-keyed by year.  The remote service is the environment: *)
(* it answers every request with a body or with a transport failure.       *)
(*                                                                         *)
(* JSON values are records with a "type" field.  Python floats are kept as *)
(* fixed-point integers counting tenths (1234.0 is 12340).  Numeric        *)
(* strings are sequences of one-character strings.                         *)
(***************************************************************************)
EXTENDS Integers, Sequences, FiniteSets, TLC

\* ---------------------------------------------------------------- bounds
FirstYear == 2020
NumYears == 3
MaxPending == 2
MaxOtherSteps == 2
SmallGeoJson == 120
LargeGeoJson == 9000
EdgeGeoJson == 7923

Years == FirstYear .. (FirstYear + NumYears - 1)

\* ------------------------------------------------------------- constants
DATASETS_Swapped == <<"wpgpas", "wpgppop">>
DATASETS == <<"wpgppop", "wpgpas">>
CITY_VARIABLES == <<"Total Population", "Age and Sex Structures">>
API_URL_BASE == "https://api.worldpop.org/v1"
UrlLimit == 8000
RequestUriTooLong == 414

\* ------------------------------------------------------------ JSON values
None == [type |-> "null", s |-> "", n |-> 0]
StrVal(x) == [type |-> "str", s |-> x, n |-> 0]
NumVal(x) == [type |-> "num", s |-> "", n |-> x]

\* Python str(): a string is unchanged, a number becomes its decimal text.
Str(v) ==
    IF v.type = "str" THEN v
    ELSE IF v.type = "num" THEN StrVal(ToString(v.n))
    ELSE StrVal("None")

\* Decimal text of a natural number, one character per element.
RECURSIVE Digits(_)
Digits(n) ==
    IF n < 10 THEN <<ToString(n)>>
    ELSE Digits(n \div 10) \o <<ToString(n % 10)>>

DigitValue(c) == CHOOSE d \in 0..9 : ToString(d) = c

RECURSIVE ParseDigits(_)
ParseDigits(cs) ==
    IF cs = <<>> THEN 0
    ELSE 10 * ParseDigits(SubSeq(cs, 1, Len(cs) - 1)) + DigitValue(cs[Len(cs)])

\* Python float() of a decimal text "ddd" or "ddd.d", in tenths.
ParseFloat(cs) ==
    IF \E i \in 1..Len(cs) : cs[i] = "."
    THEN LET dot == CHOOSE i \in 1..Len(cs) : cs[i] = "."
             whole == ParseDigits(SubSeq(cs, 1, dot - 1))
             frac == IF dot < Len(cs) THEN DigitValue(cs[dot + 1]) ELSE 0
         IN 10 * whole + frac
    ELSE 10 * ParseDigits(cs)

\* ------------------------------------------------------------- environment
\* The k-th task the service creates: its id, as a string or as a number.
ServerTaskId(kind, k) ==
    IF kind = "str" THEN StrVal("t" \o ToString(k)) ELSE NumVal(k)

\* The service has created the task a poll URL names.
ServerKnows(kind, polled, issued) ==
    \E k \in 1..issued : Str(ServerTaskId(kind, k)) = polled

\* Index of the task a poll URL names (the URL carries str(taskid)).
ServerTaskIndex(kind, polled, issued) ==
    CHOOSE k \in 1..issued : Str(ServerTaskId(kind, k)) = polled

ServerPopulation(k) == Digits(1233 + k) \o <<".", "0">>

ServerPyramid(k) ==
    << [class |-> 0, age |-> "0-4", male |-> Digits(10 * k), female |-> Digits(10 * k + 2)],
       [class |-> 1, age |-> "5-9", male |-> Digits(10 * k + 1) \o <<".", "5">>, female |-> Digits(10 * k + 3)] >>

ServerErrorMessage(k) == "task error " \o ToString(k)

\* Body of GET /services/stats on success.
SubmitBody(kind, k) == [type |-> "object", taskid |-> ServerTaskId(kind, k)]

\* Body of GET /tasks/{id}.  err is "true", "false" or "absent".
PollBody(kind, k, token, status, err) ==
    [type |-> "object",
     status |-> status,
     has_error |-> err # "absent",
     error |-> (err = "true"),
     error_message |-> IF err = "true" THEN ServerErrorMessage(k) ELSE "",
     taskid |-> ServerTaskId(kind, k),
     population |-> IF token = DATASETS[1] THEN ServerPopulation(k) ELSE <<>>,
     agesexpyramid |-> IF token = DATASETS[2] THEN ServerPyramid(k) ELSE <<>>]

\* What requests.get / raise_for_status can raise for a request.
Failures ==
    { [exc |-> "HTTPError", status_code |-> c] : c \in {RequestUriTooLong, 500} }
    \cup { [exc |-> "ConnectionError", status_code |-> 0] }

\* Reply of the service to one request: a JSON body, or an exception.
Body(b) == [ok |-> TRUE, body |-> b, failure |-> [exc |-> "", status_code |-> 0]]
Raise(f) == [ok |-> FALSE, body |-> None, failure |-> f]

\* ------------------------------------------------------------ req_http.py
BoundaryTooComplex == "City boundary extremely complex! GeoJson expression too long to be processed. Try with another city!"
ConnectionErrorMessage == "Connection error"

\* http_get: the body, or None after an HTTPError or a ConnectionError.
HttpGetReturn(reply) == IF reply.ok THEN reply.body ELSE None

HttpGetPrints_AtLeast(url, reply) ==
    IF reply.ok THEN <<>>
    ELSE IF reply.failure.exc = "HTTPError"
         THEN IF reply.failure.status_code = RequestUriTooLong
              THEN <<BoundaryTooComplex>> ELSE <<>>
         ELSE IF url.length >= UrlLimit
              THEN <<BoundaryTooComplex>> ELSE <<ConnectionErrorMessage>>

\* http_get: what it prints.
HttpGetPrints(url, reply) ==
    IF reply.ok THEN <<>>
    ELSE IF reply.failure.exc = "HTTPError"
         THEN IF reply.failure.status_code = RequestUriTooLong
              THEN <<BoundaryTooComplex>> ELSE <<>>
         ELSE IF url.length > UrlLimit
              THEN <<BoundaryTooComplex>> ELSE <<ConnectionErrorMessage>>

\* ------------------------------------------------------ worldpop_helper.py
IsNone(v) == v.type = "null"
Truthy(v) == ~IsNone(v)

\* __generate_query_string: the submission URL of one year.
GenerateQueryString(dataset_id, y, geojson_len) ==
    LET dataset_name == DATASETS[dataset_id]
    IN [path |-> "/services/stats",
        dataset |-> dataset_name,
        year |-> y,
        taskid |-> "",
        length |-> Len(API_URL_BASE) + Len("/services/stats?dataset=")
                   + Len(dataset_name) + Len("&year=") + Len(Digits(y))
                   + Len("&geojson=") + geojson_len]

\* __monitor_query_task: the status URL of one task.
MonitorQueryString(taskid) ==
    [path |-> "/tasks/",
     dataset |-> "",
     year |-> 0,
     taskid |-> Str(taskid).s,
     length |-> Len(API_URL_BASE) + Len("/tasks/") + Len(Str(taskid).s)]

YearRange_Exclusive(s, e) == [i \in 1 .. (e - s) |-> s + i - 1]

\* __next_subquery: range(start_year, end_year + 1).
YearRange(s, e) == [i \in 1 .. (e + 1 - s) |-> s + i - 1]

\* __create_query_task: the new year -> taskid map.
CreateQueryTaskRecord(tasks_by_year, y, results) ==
    IF Truthy(results)
    THEN [z \in (DOMAIN tasks_by_year) \cup {y} |->
             IF z = y THEN Str(results.taskid) ELSE tasks_by_year[z]]
    ELSE tasks_by_year

CreateQueryTaskReturn_Stringified(results) ==
    IF Truthy(results) THEN results.taskid ELSE Str(None)

\* __create_query_task: the value returned for the year.
CreateQueryTaskReturn(results) ==
    IF Truthy(results) THEN results.taskid ELSE None

MonitorOutcome_StopOnError(response) ==
    IF IsNone(response) THEN "TypeError"
    ELSE IF response.status = "finished"
         THEN IF ~response.has_error THEN "KeyError"
              ELSE IF response.error THEN "KeyError" ELSE "yield"
         ELSE "sleep"

MonitorOutcome_Retry(response) ==
    IF IsNone(response) THEN "sleep"
    ELSE IF response.status = "finished"
         THEN IF ~response.has_error THEN "KeyError" ELSE "yield"
         ELSE "sleep"

\* __next_monitor: what one poll response does to the loop.
MonitorOutcome(response) ==
    IF IsNone(response) THEN "TypeError"
    ELSE IF response.status = "finished"
         THEN IF ~response.has_error THEN "KeyError" ELSE "yield"
         ELSE "sleep"

HeadTask_Last(ids) == ids[Len(ids)]

\* __next_monitor: taskids[0], the task that is polled.
HeadTask(ids) == ids[1]

DelHead_Two(ids) == IF Len(ids) > 1 THEN Tail(Tail(ids)) ELSE Tail(ids)

\* __next_monitor: del taskids[0].
DelHead(ids) == Tail(ids)

TransformPyramidToObjects_Swapped(pyramid_data) ==
    [i \in 1 .. Len(pyramid_data) |->
        [number |-> pyramid_data[i].class,
         ageRange |-> pyramid_data[i].age,
         male |-> ParseFloat(pyramid_data[i].female),
         female |-> ParseFloat(pyramid_data[i].male)]]

\* __transform_pyramid_to_objects.
TransformPyramidToObjects(pyramid_data) ==
    [i \in 1 .. Len(pyramid_data) |->
        [number |-> pyramid_data[i].class,
         ageRange |-> pyramid_data[i].age,
         male |-> ParseFloat(pyramid_data[i].male),
         female |-> ParseFloat(pyramid_data[i].female)]]

AnyError_All(raw) == raw # <<>> /\ \A i \in 1 .. Len(raw) : raw[i].error

\* retrieve_results: any(result["error"] for result in raw_results).
AnyError(raw) == \E i \in 1 .. Len(raw) : raw[i].error

FirstErrorMessage_Last(raw) ==
    raw[CHOOSE i \in 1 .. Len(raw) :
            raw[i].error /\ \A j \in (i + 1) .. Len(raw) : ~raw[j].error].error_message

\* retrieve_results: next(error_messages).
FirstErrorMessage(raw) ==
    raw[CHOOSE i \in 1 .. Len(raw) :
            raw[i].error /\ \A j \in 1 .. (i - 1) : ~raw[j].error].error_message

\* retrieve_results: the payload of one response, by dataset.
Transform(dataset_id, response) ==
    IF dataset_id = 1 THEN ParseFloat(response.population)
    ELSE TransformPyramidToObjects(response.agesexpyramid)

\* retrieve_results: the dict keyed by the responses' taskid (last one wins).
RawByTaskId(dataset_id, raw) ==
    [tid \in {raw[i].taskid : i \in 1 .. Len(raw)} |->
        Transform(dataset_id,
                  raw[CHOOSE i \in 1 .. Len(raw) :
                          raw[i].taskid = tid
                          /\ \A j \in (i + 1) .. Len(raw) : raw[j].taskid # tid])]

\* retrieve_results: raw_results[taskid] raises KeyError for an unknown key.
ReKeyRaises(dataset_id, raw, tasks_by_year) ==
    \E y \in DOMAIN tasks_by_year :
        tasks_by_year[y] \notin DOMAIN RawByTaskId(dataset_id, raw)

\* retrieve_results: {year: raw_results[taskid] for year, taskid in map}.
ReKey(dataset_id, raw, tasks_by_year) ==
    [y \in DOMAIN tasks_by_year |->
        RawByTaskId(dataset_id, raw)[tasks_by_year[y]]]

\* ------------------------------------------------------------- analysis.py
InvalidRange_Reversed(s, e) == s < e

\* execute_query: if start_year > end_year.
InvalidRange(s, e) == s > e

AllCreated_Any(ids) == \E i \in 1 .. Len(ids) : ~IsNone(ids[i])

AllCreated_NonEmpty(ids) == Len(ids) > 0

\* execute_query: all(taskid is not None for taskid in taskids).
AllCreated(ids) == \A i \in 1 .. Len(ids) : ~IsNone(ids[i])

InvalidRangeMessage == "Invalid range: Start year must be less than or equal to end year."
InvalidInputMessage == "Invalid input. Please enter numeric values for years."
ResultsHeader(v) == "Results for '" \o CITY_VARIABLES[v] \o "'"
NoDataMessage(v) == "No data can be obtained for '" \o CITY_VARIABLES[v] \o "'"
ResultLine(y) == "* " \o ToString(y)

\* execute_query: the lines printed after retrieve_results returned.
RECURSIVE ResultLines(_)
ResultLines(ys) ==
    IF ys = {} THEN <<>>
    ELSE LET y == CHOOSE m \in ys : \A z \in ys : m <= z
         IN <<ResultLine(y)>> \o ResultLines(ys \ {y})

NoMap == [y \in {} |-> 0]
Unset == [kind |-> "unset", map |-> NoMap]
NoneResult == [kind |-> "None", map |-> NoMap]
DictResult(m) == [kind |-> "dict", map |-> m]

\* main: selected_city, None or the CityInfo that select_city returned.
NoCity == [chosen |-> FALSE, geojson_len |-> 0]
City(g) == [chosen |-> TRUE, geojson_len |-> g]

\* Python seq[i]: a negative index counts from the end.
PyItem(seq, i) == IF i < 0 THEN seq[Len(seq) + i + 1] ELSE seq[i + 1]

\* select_variable: if selected_variable < 0 or selected_variable > 2.
VariableOutOfRange(n) == n < 0 \/ n > 2

VariableTruthy_NotNone(v) == ~IsNone(v)

\* main: the truth value of selected_variable; None and 0 are false.
VariableTruthy(v) == ~IsNone(v) /\ v.n # 0

ChooseCityFirstMessage == "Please choose a city first."
InvalidVariableMessage == "Invalid value for variable. Try again."
VariableNotFoundMessage(n) == "Variable '" \o ToString(n) \o "' not found. Try again."
VariableSelectedMessage(n) == "Variable '" \o PyItem(CITY_VARIABLES, n - 1) \o "' selected."
ChooseBothFirstMessage == "Please choose a city and a variable first."

\* ------------------------------------------------------------------ state
VARIABLES
    pc,                   \* position in execute_query
    selected_variable,    \* 1 or 2, chosen in the menu
    geojson_len,          \* len(json.dumps(selected_city.boundary_data))
    start_year, end_year, \* the two years read from the user
    year_pos,             \* position of __next_subquery in its range
    query_tasks_by_year,  \* WorldPopAdvancedQuery.__query_tasks_by_year
    taskids,              \* the list built by perform_us_city_query
    handed,               \* the list perform_us_city_query returned
    calls,                \* the steps of execute_query taken so far
    raw_results,          \* responses yielded by __next_monitor so far
    result,               \* what retrieve_results returned
    exception,            \* the exception that left execute_query, or ""
    output,               \* lines printed
    inflight,             \* requests sent and not yet answered
    requests,             \* every request sent, in order
    replies,              \* the reply to each request, in order
    id_kind,              \* service: task ids are strings or numbers
    issued,               \* service: number of tasks created
    pending_polls,        \* polls of the head task answered "not finished"
    other_steps,          \* steps the event loop gave to its other tasks
    selected_city,        \* main's selected_city: NoCity or a city
    main_selected_variable, \* main's selected_variable: None or a number
    variable_message      \* last line printed by select_variable or option 3

vars == <<pc, selected_variable, geojson_len, start_year, end_year, year_pos,
          query_tasks_by_year, taskids, handed, calls, raw_results,
          result, exception, output, inflight, requests, replies, id_kind,
          issued, pending_polls, other_steps, selected_city,
          main_selected_variable, variable_message>>

query_vars == <<year_pos, query_tasks_by_year, taskids, handed,
                raw_results, result>>
net_vars == <<inflight, requests, replies, issued, pending_polls>>
input_vars == <<selected_variable, geojson_len, id_kind>>
loop_vars == <<other_steps>>
menu_vars == <<selected_city, main_selected_variable, variable_message>>

Init ==
    /\ pc = "read_years"
    /\ selected_variable \in {1, 2}
    /\ geojson_len \in {SmallGeoJson, EdgeGeoJson, LargeGeoJson}
    /\ id_kind \in {"str", "num"}
    /\ start_year = 0
    /\ end_year = 0
    /\ year_pos = 1
    /\ query_tasks_by_year = NoMap
    /\ taskids = <<>>
    /\ handed = <<>>
    /\ calls = <<>>
    /\ raw_results = <<>>
    /\ result = Unset
    /\ exception = ""
    /\ output = <<>>
    /\ inflight = {}
    /\ requests = <<>>
    /\ replies = <<>>
    /\ issued = 0
    /\ pending_polls = 0
    /\ other_steps = 0
    /\ selected_city = City(geojson_len)
    /\ main_selected_variable = NumVal(selected_variable)
    /\ variable_message = VariableSelectedMessage(selected_variable)

\* execute_query, lines 121-138: the years are read and the range checked;
\* a valid range constructs the query object.
ReadYears(s, e) ==
    /\ pc = "read_years"
    /\ start_year' = s
    /\ end_year' = e
    /\ IF InvalidRange(s, e)
       THEN /\ output' = Append(output, InvalidRangeMessage)
            /\ calls' = calls
            /\ pc' = "done"
       ELSE /\ output' = output
            /\ calls' = Append(calls, "WorldPopAdvancedQuery")
            /\ pc' = "submit"
    /\ UNCHANGED <<query_vars, net_vars, input_vars, loop_vars, menu_vars, exception>>

\* execute_query, lines 160-162: int() rejects one of the two inputs.
ReadYearsValueError ==
    /\ pc = "read_years"
    /\ output' = Append(output, InvalidInputMessage)
    /\ pc' = "done"
    /\ UNCHANGED <<start_year, end_year, query_vars, net_vars, input_vars, loop_vars, menu_vars,
                   exception, calls>>

\* __next_subquery / __create_query_task up to the await of http_get.
SubmitRequest ==
    /\ pc = "submit"
    /\ year_pos <= Len(YearRange(start_year, end_year))
    /\ LET url == GenerateQueryString(selected_variable,
                                      YearRange(start_year, end_year)[year_pos],
                                      geojson_len)
       IN /\ inflight' = inflight \cup {url}
          /\ requests' = Append(requests, url)
    /\ pc' = "await_submit"
    /\ UNCHANGED <<start_year, end_year, query_vars, input_vars, loop_vars, menu_vars, exception,
                   output, replies, issued, pending_polls, calls>>

\* __create_query_task after the await: the reply is recorded and yielded.
SubmitResponse(reply) ==
    /\ pc = "await_submit"
    /\ LET url == requests[Len(requests)]
           results == HttpGetReturn(reply)
       IN /\ inflight' = inflight \ {url}
          /\ output' = output \o HttpGetPrints(url, reply)
          /\ query_tasks_by_year' =
                 CreateQueryTaskRecord(query_tasks_by_year, url.year, results)
          /\ taskids' = Append(taskids, CreateQueryTaskReturn(results))
    /\ replies' = Append(replies, reply)
    /\ issued' = IF reply.ok THEN issued + 1 ELSE issued
    /\ year_pos' = year_pos + 1
    /\ pc' = "submit"
    /\ UNCHANGED <<start_year, end_year, handed, calls, raw_results,
                   result, input_vars, loop_vars, menu_vars, exception, requests, pending_polls>>

\* The service creates the next task, or the request fails.
SubmitReplies ==
    {Body(SubmitBody(id_kind, issued + 1))} \cup {Raise(f) : f \in Failures}

\* perform_us_city_query returns; execute_query, lines 140-141 and 154-159.
PerformReturn ==
    /\ pc = "submit"
    /\ year_pos > Len(YearRange(start_year, end_year))
    /\ handed' = taskids
    /\ IF AllCreated(taskids)
       THEN /\ calls' = calls \o <<"perform_us_city_query", "retrieve_results">>
            /\ output' = output
            /\ pc' = "monitor"
       ELSE /\ calls' = Append(calls, "perform_us_city_query")
            /\ output' = Append(output, NoDataMessage(selected_variable))
            /\ pc' = "done"
    /\ UNCHANGED <<start_year, end_year, year_pos, query_tasks_by_year, taskids,
                   raw_results, result, net_vars, input_vars, loop_vars, menu_vars, exception>>

\* __next_monitor, lines 94-95: the head task is polled.
PollRequest ==
    /\ pc = "monitor"
    /\ Len(taskids) > 0
    /\ LET url == MonitorQueryString(HeadTask(taskids))
       IN /\ inflight' = inflight \cup {url}
          /\ requests' = Append(requests, url)
    /\ pc' = "await_poll"
    /\ UNCHANGED <<start_year, end_year, query_vars, input_vars, loop_vars, menu_vars, exception,
                   output, replies, issued, pending_polls, calls>>

\* __next_monitor, lines 96-104, on the reply to the poll.
PollResponse(reply) ==
    /\ pc = "await_poll"
    /\ LET url == requests[Len(requests)]
           response == HttpGetReturn(reply)
           outcome == MonitorOutcome(response)
       IN /\ inflight' = inflight \ {url}
          /\ output' = output \o HttpGetPrints(url, reply)
          /\ IF outcome = "yield"
             THEN /\ taskids' = DelHead(taskids)
                  /\ raw_results' = Append(raw_results, response)
                  /\ pending_polls' = 0
                  /\ exception' = exception
                  /\ pc' = "monitor"
             ELSE IF outcome = "sleep"
             THEN /\ pending_polls' = pending_polls + 1
                  /\ pc' = "sleeping"
                  /\ UNCHANGED <<taskids, raw_results, exception>>
             ELSE /\ exception' = outcome
                  /\ pc' = "raised"
                  /\ UNCHANGED <<taskids, raw_results, pending_polls>>
    /\ replies' = Append(replies, reply)
    /\ UNCHANGED <<start_year, end_year, year_pos, query_tasks_by_year, handed,
                   calls, result, input_vars, loop_vars, menu_vars, requests, issued>>

\* The service answers a poll of the head task.
PollReplies ==
    LET polled == StrVal(requests[Len(requests)].taskid)
        k == ServerTaskIndex(id_kind, polled, issued)
        token == DATASETS[selected_variable]
    IN IF ~ServerKnows(id_kind, polled, issued) THEN {Raise(f) : f \in Failures}
       ELSE
       {Body(PollBody(id_kind, k, token, "finished", err)) :
            err \in {"true", "false", "absent"}}
       \cup (IF pending_polls < MaxPending
             THEN {Body(PollBody(id_kind, k, token, "started", "false"))}
             ELSE {})
       \cup {Raise(f) : f \in Failures}

\* __next_monitor, line 104: time.sleep(1) returns and the loop tests
\* len(taskids) again.  The call holds the thread of the event loop.
Wake ==
    /\ pc = "sleeping"
    /\ pc' = "monitor"
    /\ UNCHANGED <<start_year, end_year, query_vars, net_vars, input_vars,
                   loop_vars, menu_vars, calls, exception, output>>

\* retrieve_results, lines 141-164, once the monitor is exhausted, and
\* execute_query, lines 142-153, on its return.
RetrieveReturn ==
    /\ pc = "monitor"
    /\ Len(taskids) = 0
    /\ calls' = Append(calls, "__next_monitor exhausted")
    /\ IF AnyError(raw_results)
       THEN /\ result' = NoneResult
            /\ output' = output \o <<FirstErrorMessage(raw_results),
                                     ResultsHeader(selected_variable),
                                     ResultsHeader(selected_variable)>>
            /\ exception' = exception
            /\ pc' = "done"
       ELSE IF ReKeyRaises(selected_variable, raw_results, query_tasks_by_year)
       THEN /\ exception' = "KeyError"
            /\ pc' = "raised"
            /\ UNCHANGED <<result, output>>
       ELSE LET results == ReKey(selected_variable, raw_results, query_tasks_by_year)
            IN /\ result' = DictResult(results)
               /\ output' = output \o <<ResultsHeader(selected_variable)>>
                            \o (IF DOMAIN results # {}
                                THEN ResultLines(DOMAIN results)
                                ELSE <<ResultsHeader(selected_variable)>>)
               /\ exception' = exception
               /\ pc' = "done"
    /\ UNCHANGED <<start_year, end_year, year_pos, query_tasks_by_year, taskids,
                   handed, raw_results, net_vars, input_vars, loop_vars, menu_vars>>

Next ==
    \/ \E s \in Years, e \in Years : ReadYears(s, e)
    \/ ReadYearsValueError
    \/ SubmitRequest
    \/ pc = "await_submit" /\ \E reply \in SubmitReplies : SubmitResponse(reply)
    \/ PerformReturn
    \/ PollRequest
    \/ pc = "await_poll" /\ \E reply \in PollReplies : PollResponse(reply)
    \/ Wake
    \/ RetrieveReturn

Spec == Init /\ [][Next]_vars

\* WorldPopAdvancedQuery.__init__, lines 31-35, called by a caller that has
\* not checked the range: the four arguments are stored, the map is empty.
Construct(s, e) ==
    /\ pc = "construct"
    /\ start_year' = s
    /\ end_year' = e
    /\ query_tasks_by_year' = NoMap
    /\ calls' = Append(calls, "WorldPopAdvancedQuery")
    /\ pc' = "submit"
    /\ UNCHANGED <<year_pos, taskids, handed, raw_results, result, net_vars,
                   input_vars, loop_vars, menu_vars, exception, output>>

ApiInit ==
    /\ pc = "construct"
    /\ selected_variable \in {1, 2}
    /\ geojson_len \in {SmallGeoJson, EdgeGeoJson, LargeGeoJson}
    /\ id_kind \in {"str", "num"}
    /\ start_year = 0
    /\ end_year = 0
    /\ year_pos = 1
    /\ query_tasks_by_year = NoMap
    /\ taskids = <<>>
    /\ handed = <<>>
    /\ calls = <<>>
    /\ raw_results = <<>>
    /\ result = Unset
    /\ exception = ""
    /\ output = <<>>
    /\ inflight = {}
    /\ requests = <<>>
    /\ replies = <<>>
    /\ issued = 0
    /\ pending_polls = 0
    /\ other_steps = 0
    /\ selected_city = City(geojson_len)
    /\ main_selected_variable = NumVal(selected_variable)
    /\ variable_message = VariableSelectedMessage(selected_variable)

ApiNext ==
    \/ \E s \in Years, e \in Years : Construct(s, e)
    \/ SubmitRequest
    \/ pc = "await_submit" /\ \E reply \in SubmitReplies : SubmitResponse(reply)
    \/ PerformReturn
    \/ PollRequest
    \/ pc = "await_poll" /\ \E reply \in PollReplies : PollResponse(reply)
    \/ Wake
    \/ RetrieveReturn

\* The query object used directly: constructed with any two years, then
\* driven through perform_us_city_query and retrieve_results.
ApiSpec == ApiInit /\ [][ApiNext]_vars

\* The scheduler runs the coroutine whenever it can take a step.
FairSpec == Spec /\ WF_vars(Next)

TypeOK ==
    /\ pc \in {"read_years", "construct", "submit", "await_submit", "monitor", "await_poll",
               "sleeping", "done", "raised", "menu", "exited"}
    /\ other_steps \in 0 .. MaxOtherSteps
    /\ exception \in {"", "TypeError", "KeyError"}
    /\ result.kind \in {"unset", "None", "dict"}
    /\ Len(replies) <= Len(requests)

\* http_get, line 21: while execute_query is suspended at
\* "await asyncio.to_thread(...)" the event loop runs its other tasks.
\* Everywhere else the coroutine occupies the loop's thread.
OtherTaskStep ==
    /\ pc \in {"await_submit", "await_poll"}
    /\ other_steps < MaxOtherSteps
    /\ other_steps' = other_steps + 1
    /\ UNCHANGED <<pc, start_year, end_year, query_vars, net_vars, input_vars,
                   menu_vars, calls, exception, output>>

LoopNext == Next \/ OtherTaskStep

\* execute_query running in an event loop that has other tasks.
LoopSpec == Init /\ [][LoopNext]_vars

\* The numbers typed at "Enter the variable to be determined".
VariableChoices == (0 - 1) .. 3
GeoJsonSizes == {SmallGeoJson, EdgeGeoJson, LargeGeoJson}

\* The state of execute_query before it is called: its parameters are not
\* bound and nothing of a query exists.
NotCalled ==
    /\ selected_variable = 0
    /\ geojson_len = 0
    /\ start_year = 0
    /\ end_year = 0
    /\ year_pos = 1
    /\ query_tasks_by_year = NoMap
    /\ taskids = <<>>
    /\ handed = <<>>
    /\ calls = <<>>
    /\ raw_results = <<>>
    /\ result = Unset
    /\ exception = ""
    /\ output = <<>>
    /\ inflight = {}
    /\ requests = <<>>
    /\ replies = <<>>
    /\ issued = 0
    /\ pending_polls = 0

\* main, lines 167-168, at its first prompt.
MenuInit ==
    /\ pc = "menu"
    /\ id_kind \in {"str", "num"}
    /\ NotCalled
    /\ other_steps = 0
    /\ selected_city = NoCity
    /\ main_selected_variable = None
    /\ variable_message = ""

\* main, choice "1": select_city returns a city or None.
ChooseCity(c) ==
    /\ pc = "menu"
    /\ selected_city' = c
    /\ UNCHANGED <<pc, start_year, end_year, query_vars, net_vars, input_vars,
                   loop_vars, main_selected_variable, variable_message,
                   calls, exception, output>>

\* main, choice "2": select_variable with a number typed.
SelectVariable(n) ==
    /\ pc = "menu"
    /\ IF ~selected_city.chosen
       THEN /\ main_selected_variable' = None
            /\ variable_message' = ChooseCityFirstMessage
       ELSE IF VariableOutOfRange(n)
       THEN /\ main_selected_variable' = None
            /\ variable_message' = VariableNotFoundMessage(n)
       ELSE /\ main_selected_variable' = NumVal(n)
            /\ variable_message' = VariableSelectedMessage(n)
    /\ UNCHANGED <<pc, start_year, end_year, query_vars, net_vars, input_vars,
                   loop_vars, selected_city, calls, exception, output>>

\* main, choice "2": select_variable with a text that int() rejects.
SelectVariableValueError ==
    /\ pc = "menu"
    /\ selected_city.chosen
    /\ main_selected_variable' = None
    /\ variable_message' = InvalidVariableMessage
    /\ UNCHANGED <<pc, start_year, end_year, query_vars, net_vars, input_vars,
                   loop_vars, selected_city, calls, exception, output>>

\* main, choice "3": execute_query is called, or the choice is refused.
ExecuteChoice ==
    /\ pc = "menu"
    /\ IF ~selected_city.chosen \/ ~VariableTruthy(main_selected_variable)
       THEN /\ variable_message' = ChooseBothFirstMessage
            /\ UNCHANGED <<pc, selected_variable, geojson_len>>
       ELSE /\ pc' = "read_years"
            /\ selected_variable' = main_selected_variable.n
            /\ geojson_len' = selected_city.geojson_len
            /\ variable_message' = variable_message
    /\ UNCHANGED <<start_year, end_year, query_vars, net_vars, id_kind,
                   loop_vars, selected_city, main_selected_variable,
                   calls, exception, output>>

\* main: execute_query has returned and the menu is shown again.  The
\* query object and the locals of the call are gone.
ReturnToMenu ==
    /\ pc = "done"
    /\ pc' = "menu"
    /\ selected_variable' = 0
    /\ geojson_len' = 0
    /\ start_year' = 0
    /\ end_year' = 0
    /\ year_pos' = 1
    /\ query_tasks_by_year' = NoMap
    /\ taskids' = <<>>
    /\ handed' = <<>>
    /\ calls' = <<>>
    /\ raw_results' = <<>>
    /\ result' = Unset
    /\ exception' = ""
    /\ output' = <<>>
    /\ inflight' = {}
    /\ requests' = <<>>
    /\ replies' = <<>>
    /\ issued' = 0
    /\ pending_polls' = 0
    /\ UNCHANGED <<id_kind, loop_vars, menu_vars>>

\* main, choice "5".
Exit ==
    /\ pc = "menu"
    /\ pc' = "exited"
    /\ UNCHANGED <<start_year, end_year, query_vars, net_vars, input_vars,
                   loop_vars, menu_vars, calls, exception, output>>

MenuNext ==
    \/ \E c \in {NoCity} \cup {City(g) : g \in GeoJsonSizes} : ChooseCity(c)
    \/ \E n \in VariableChoices : SelectVariable(n)
    \/ SelectVariableValueError
    \/ ExecuteChoice
    \/ ReturnToMenu
    \/ Exit
    \/ Next

\* main: the menu loop around execute_query.
MenuSpec == MenuInit /\ [][MenuNext]_vars

\* ----------------------------------------------------------------- claims
Called(name) == \E i \in 1 .. Len(calls) : calls[i] = name
MonitorExhausted == "__next_monitor exhausted"
IsSubmitUrl(url) == url.path = "/services/stats"
IsPollUrl(url) == url.path = "/tasks/"
SubmitRequests == SelectSeq(requests, IsSubmitUrl)
PollRequests == SelectSeq(requests, IsPollUrl)
SubmitFailed(i) == i <= Len(replies) /\ IsSubmitUrl(requests[i]) /\ ~replies[i].ok
PollFailed(i) == i <= Len(replies) /\ IsPollUrl(requests[i]) /\ ~replies[i].ok
Stopped == pc \in {"done", "raised"}
\* The outcomes of the submissions, one per answered request.
Outcomes == IF Called("perform_us_city_query") THEN handed ELSE taskids

\* C1: once a polled task has finished with error = true, retrieve_results
\* never returns a result map: it returns None, and no year is reported.
C1_ErrorInvalidatesBatch ==
    (\E i \in 1 .. Len(raw_results) : raw_results[i].error = TRUE) =>
        /\ result.kind # "dict"
        /\ result.map = NoMap
        /\ Called(MonitorExhausted) => (result = NoneResult /\ pc = "done")
        /\ \A i \in 1 .. Len(output) : \A y \in Years : output[i] # ResultLine(y)

C1_Witness ==
    /\ Called(MonitorExhausted)
    /\ result = NoneResult
    /\ selected_variable = 2
    /\ Len(raw_results) >= 2
    /\ ~raw_results[1].error
    /\ raw_results[2].error

\* C3: the submissions are issued one per year of [start_year, end_year] in
\* ascending order, never two at a time, each after the reply to the one
\* before; perform_us_city_query returns one outcome per year in that order.
C3_SequentialAscendingSubmissions ==
    /\ Cardinality(inflight) <= 1
    /\ Len(requests) - Len(replies) \in {0, 1}
    /\ inflight = {} <=> Len(requests) = Len(replies)
    /\ \A i \in 1 .. Len(SubmitRequests) :
          SubmitRequests[i].year = start_year + i - 1
    /\ Called("perform_us_city_query") =>
          /\ Len(SubmitRequests) = end_year - start_year + 1
          /\ Len(handed) = end_year - start_year + 1
          /\ \A i \in 1 .. Len(handed) :
                handed[i] = IF replies[i].ok THEN replies[i].body.taskid ELSE None

C3_Witness ==
    /\ Called("perform_us_city_query")
    /\ end_year - start_year + 1 = NumYears
    /\ Len(SubmitRequests) = NumYears

\* C4: a failed submission leaves None as that year's outcome and does not
\* stop the batch: no exception leaves the loop, and every later year of the
\* range has been submitted when perform_us_city_query returns.
C4_BestEffortSubmission ==
    \A i \in 1 .. Len(replies) :
        SubmitFailed(i) =>
            /\ Outcomes[i] = None
            /\ exception = ""
            /\ pc \in {"submit", "await_submit", "done"}
            /\ pc = "done" => Called("perform_us_city_query")
            /\ Called("perform_us_city_query") =>
                  \A y \in (requests[i].year + 1) .. end_year :
                      \E j \in (i + 1) .. Len(requests) :
                          IsSubmitUrl(requests[j]) /\ requests[j].year = y

C4_Witness ==
    /\ pc = "done"
    /\ Len(handed) >= 2
    /\ SubmitFailed(1)
    /\ handed[1] = None
    /\ replies[2].ok
    /\ handed[2] # None

\* C5: the tasks handed to the monitor are, at every moment, the accumulated
\* responses followed by the outstanding list; when the loop is exhausted
\* there is exactly one terminal response per task handed in, in order.
C5_NoTaskDropped ==
    Called("retrieve_results") =>
        /\ Len(raw_results) + Len(taskids) = Len(handed)
        /\ \A i \in 1 .. Len(raw_results) :
              raw_results[i].taskid = handed[i] /\ raw_results[i].status = "finished"
        /\ \A i \in 1 .. Len(taskids) : taskids[i] = handed[Len(raw_results) + i]
        /\ Called(MonitorExhausted) =>
              (taskids = <<>> /\ Len(raw_results) = Len(handed))

C5_Witness ==
    /\ Called(MonitorExhausted)
    /\ Len(handed) = NumYears
    /\ Len(raw_results) = NumYears

\* The reply that ended the polling of the task handed in at position k.
FinishedOK(i) ==
    /\ i <= Len(replies)
    /\ IsPollUrl(requests[i])
    /\ replies[i].ok
    /\ replies[i].body.status = "finished"
    /\ replies[i].body.has_error
    /\ ~replies[i].body.error
TerminalReply(tid) ==
    CHOOSE i \in 1 .. Len(replies) : FinishedOK(i) /\ requests[i].taskid = Str(tid).s
AllTasksFinishedOK ==
    /\ Called("retrieve_results")
    /\ \A k \in 1 .. Len(handed) :
          \E i \in 1 .. Len(replies) :
              FinishedOK(i) /\ requests[i].taskid = Str(handed[k]).s

\* C2: when every submitted task has finished with error = false and
\* execute_query has stopped, retrieve_results has returned a map whose keys
\* are the years of the range with a recorded task, each holding the
\* transformed payload of the terminal response of that year's task.
C2_ResultMapKeyedByYear ==
    (Stopped /\ AllTasksFinishedOK) =>
        /\ result.kind = "dict"
        /\ DOMAIN result.map =
              {y \in start_year .. end_year : y \in DOMAIN query_tasks_by_year}
        /\ \A k \in 1 .. Len(handed) :
              LET y == start_year + k - 1
              IN result.map[y] =
                    Transform(selected_variable, replies[TerminalReply(handed[k])].body)

\* C6: once execute_query has stopped after calling retrieve_results, and
\* no poll has failed, the monitor loop has run to its end and the
\* outstanding list is empty.
C6_TerminatesWhenEmpty ==
    (Stopped /\ Called("retrieve_results") /\ \A i \in 1 .. Len(replies) : ~PollFailed(i)) =>
        (taskids = <<>> /\ Called(MonitorExhausted))

AllSubmissionsFailed ==
    /\ Called("perform_us_city_query")
    /\ SubmitRequests # <<>>
    /\ \A i \in 1 .. Len(requests) : IsSubmitUrl(requests[i]) => SubmitFailed(i)

\* C7, as stated: when every submission has failed the monitor is handed an
\* empty task list, nothing is polled and "no data" is reported.
C7_MonitorReceivesEmptyList ==
    AllSubmissionsFailed =>
        /\ Called("retrieve_results")
        /\ handed = <<>>
        /\ PollRequests = <<>>
        /\ exception = ""
        /\ output[Len(output)] = NoDataMessage(selected_variable)

\* C7, amended: when every submission has failed, perform_us_city_query has
\* returned None for every year, retrieve_results is never called, nothing
\* is polled, no exception is raised and "no data" is the last line printed.
C7_NoDataWithoutMonitor ==
    AllSubmissionsFailed =>
        /\ \A i \in 1 .. Len(handed) : handed[i] = None
        /\ ~Called("retrieve_results")
        /\ PollRequests = <<>>
        /\ result = Unset
        /\ exception = ""
        /\ pc = "done"
        /\ output[Len(output)] = NoDataMessage(selected_variable)

C7_Witness ==
    /\ AllSubmissionsFailed
    /\ Len(handed) = NumYears
    /\ pc = "done"

\* C8: a poll answered by a transport failure is the last request of the
\* query: the loop is left by an exception with the polled task and those
\* behind it still outstanding, and retrieve_results returns nothing.
C8_PollFailureIsFatal ==
    \A i \in 1 .. Len(replies) :
        PollFailed(i) =>
            /\ i = Len(requests)
            /\ pc = "raised"
            /\ exception = "TypeError"
            /\ result = Unset
            /\ taskids # <<>>
            /\ Len(raw_results) + Len(taskids) = Len(handed)
            /\ ~Called(MonitorExhausted)

C8_Witness ==
    /\ pc = "raised"
    /\ PollFailed(Len(requests))
    /\ Len(taskids) >= 2
    /\ Len(raw_results) >= 1

\* C9: a finished response without an error field is accumulated like a
\* successful one and raises nothing.
C9_AbsentErrorIsSuccess ==
    \A i \in 1 .. Len(replies) :
        (/\ IsPollUrl(requests[i])
         /\ replies[i].ok
         /\ replies[i].body.status = "finished"
         /\ ~replies[i].body.has_error) =>
            /\ exception = ""
            /\ \E j \in 1 .. Len(raw_results) : raw_results[j] = replies[i].body

\* C10: with start_year > end_year execute_query stops at once: no request
\* was sent, no query object was built, and the invalid range is reported.
C10_InvalidRangeRejected ==
    (pc # "read_years" /\ start_year > end_year) =>
        /\ requests = <<>>
        /\ inflight = {}
        /\ calls = <<>>
        /\ pc = "done"
        /\ output = <<InvalidRangeMessage>>

C10_Witness ==
    /\ pc = "done"
    /\ start_year > end_year
    /\ output = <<InvalidRangeMessage>>

\* C11: a query object exists only for a valid range: the constructor
\* rejects start_year > end_year whatever its caller has checked.
C11_ConstructorRevalidates ==
    Called("WorldPopAdvancedQuery") => start_year <= end_year

\* The buckets of the pyramid the service holds for its k-th task, in tenths:
\* rows (0, "0-4", "10k", "10k+2") and (1, "5-9", "10k+1.5", "10k+3").
ExpectedPyramid(k) ==
    << [number |-> 0, ageRange |-> "0-4", male |-> 100 * k, female |-> 100 * k + 20],
       [number |-> 1, ageRange |-> "5-9", male |-> 100 * k + 15, female |-> 100 * k + 30] >>

\* C13: in the map returned for an age-and-sex query, the value of each year
\* has one bucket per row of that year's pyramid, in the order of the rows,
\* the i-th bucket holding the class, age, male and female values of row i.
C13_PyramidDecodedInOrder ==
    (result.kind = "dict" /\ selected_variable = 2) =>
        \A k \in 1 .. Len(handed) :
            LET rows == replies[TerminalReply(handed[k])].body.agesexpyramid
                buckets == result.map[start_year + k - 1]
            IN /\ Len(buckets) = Len(rows)
               /\ \A i \in 1 .. Len(rows) :
                     /\ buckets[i].number = rows[i].class
                     /\ buckets[i].ageRange = rows[i].age
               /\ buckets = ExpectedPyramid(k)

C13_Witness ==
    /\ result.kind = "dict"
    /\ selected_variable = 2
    /\ Len(handed) >= 2
    /\ result.map[start_year] =
          << [number |-> 0, ageRange |-> "0-4", male |-> 100, female |-> 120],
             [number |-> 1, ageRange |-> "5-9", male |-> 115, female |-> 130] >>

\* A request refused as too large: HTTP 414, or no connection for a URL of
\* more than 8000 characters.
Oversized(i) ==
    /\ i <= Len(replies)
    /\ ~replies[i].ok
    /\ \/ replies[i].failure.exc = "HTTPError" /\ replies[i].failure.status_code = 414
       \/ replies[i].failure.exc = "ConnectionError" /\ requests[i].length > 8000
\* No connection for a URL of at most 8000 characters.
PlainConnectionFailure(i) ==
    /\ i <= Len(replies)
    /\ ~replies[i].ok
    /\ replies[i].failure.exc = "ConnectionError"
    /\ requests[i].length <= 8000
IsTooComplexLine(line) == line = "City boundary extremely complex! GeoJson expression too long to be processed. Try with another city!"
IsConnectionErrorLine(line) == line = "Connection error"

\* C14: http_get prints the boundary-too-complex line once for every
\* oversized request and never the generic line for it, prints the generic
\* line once for every other connection failure, and returns no body in
\* either case (None for a submission, a TypeError at the poll).
C14_OversizedRequestMessage ==
    /\ Len(SelectSeq(output, IsTooComplexLine))
          = Cardinality({i \in 1 .. Len(replies) : Oversized(i)})
    /\ Len(SelectSeq(output, IsConnectionErrorLine))
          = Cardinality({i \in 1 .. Len(replies) : PlainConnectionFailure(i)})
    /\ \A i \in 1 .. Len(replies) :
          (Oversized(i) \/ PlainConnectionFailure(i)) =>
              IF IsSubmitUrl(requests[i]) THEN Outcomes[i] = None
              ELSE exception = "TypeError" /\ result = Unset

C14_Witness ==
    /\ Len(replies) >= 2
    /\ PlainConnectionFailure(1)
    /\ requests[1].length = 8000
    /\ Oversized(2)
    /\ output = <<"Connection error",
                  "City boundary extremely complex! GeoJson expression too long to be processed. Try with another city!">>

\* C15: every submission of a query carries the token of its dataset kind,
\* "wpgppop" for kind 1 and "wpgpas" for kind 2, and the returned map holds
\* the scalar total for kind 1 and the list of buckets for kind 2.
C15_DatasetKindUsedConsistently ==
    /\ \A i \in 1 .. Len(requests) :
          IsSubmitUrl(requests[i]) =>
              requests[i].dataset =
                  (IF selected_variable = 1 THEN "wpgppop" ELSE "wpgpas")
    /\ result.kind = "dict" =>
          \A k \in 1 .. Len(handed) :
              LET body == replies[TerminalReply(handed[k])].body
                  value == result.map[start_year + k - 1]
              IN IF selected_variable = 1
                 THEN body.agesexpyramid = <<>> /\ value = 10 * (1233 + k)
                 ELSE body.population = <<>> /\ Len(value) = Len(body.agesexpyramid)

C15_Witness ==
    /\ result.kind = "dict"
    /\ Len(SubmitRequests) = NumYears
    /\ selected_variable = 1
    /\ \A i \in 1 .. NumYears : requests[i].dataset = "wpgppop"
    /\ result.map[start_year] = 12340

\* The reply to request i says the polled task is finished.
Terminal(i) ==
    /\ i <= Len(replies)
    /\ IsPollUrl(requests[i])
    /\ replies[i].ok
    /\ replies[i].body.status = "finished"

\* C16: the task being polled is the first outstanding one; a task is
\* polled only after every task before it in the list was answered
\* "finished"; the responses are accumulated in the order of the list.
C16_HeadOfQueuePolling ==
    /\ pc = "await_poll" =>
          requests[Len(requests)].taskid = Str(handed[Len(raw_results) + 1]).s
    /\ \A j \in 1 .. Len(requests) : \A p \in 1 .. Len(handed) :
          (IsPollUrl(requests[j]) /\ requests[j].taskid = Str(handed[p]).s) =>
              \A q \in 1 .. (p - 1) :
                  \E i \in 1 .. (j - 1) :
                      Terminal(i) /\ requests[i].taskid = Str(handed[q]).s
    /\ \A i \in 1 .. Len(raw_results) : raw_results[i].taskid = handed[i]

C16_Witness ==
    /\ Called(MonitorExhausted)
    /\ Len(handed) = NumYears
    /\ Len(PollRequests) > NumYears
    /\ ~Terminal(Len(handed) + 1)

\* The positions of the output lines that are a task's error message.
TaskErrorLines ==
    {i \in 1 .. Len(output) :
        \E k \in 1 .. Len(raw_results) :
            raw_results[k].error /\ output[i] = raw_results[k].error_message}

\* C17: of the error messages of the tasks that finished with error = true,
\* the only one ever printed is that of the first failing response in the
\* order of accumulation, and it is printed exactly once when
\* retrieve_results aggregates.
C17_FirstErrorSurfacedOnce ==
    /\ Cardinality(TaskErrorLines) <= 1
    /\ \A i \in TaskErrorLines : \E k \in 1 .. Len(raw_results) :
          /\ raw_results[k].error
          /\ \A j \in 1 .. (k - 1) : ~raw_results[j].error
          /\ output[i] = raw_results[k].error_message
          /\ raw_results[k].taskid = handed[k]
    /\ (Called(MonitorExhausted) /\ \E k \in 1 .. Len(raw_results) : raw_results[k].error)
          => Cardinality(TaskErrorLines) = 1

C17_Witness ==
    /\ Called(MonitorExhausted)
    /\ Len(raw_results) = NumYears
    /\ ~raw_results[1].error
    /\ raw_results[2].error
    /\ raw_results[3].error
    /\ raw_results[2].error_message # raw_results[3].error_message
    /\ \E i \in TaskErrorLines : output[i] = raw_results[2].error_message

\* The answered requests that submitted a year and got a task id back.
SubmitSucceeded(i) == i <= Len(replies) /\ IsSubmitUrl(requests[i]) /\ replies[i].ok

\* C18: after perform_us_city_query the year -> taskid map has an entry for
\* exactly the years whose submission succeeded, each holding the task id
\* the server returned for that year, and it stays so through polling and
\* aggregation.
C18_MapHoldsReturnedTaskIds ==
    Called("perform_us_city_query") =>
        /\ DOMAIN query_tasks_by_year =
               {requests[i].year : i \in {j \in 1 .. Len(replies) : SubmitSucceeded(j)}}
        /\ \A i \in 1 .. Len(replies) :
               SubmitSucceeded(i) =>
                   query_tasks_by_year[requests[i].year] = replies[i].body.taskid

\* C19: while __next_monitor waits between two polls of a task that has not
\* finished, the other tasks of the event loop can take a step.
C19_DelaySuspendsOnlyOrchestrator ==
    (pc = "sleeping" /\ other_steps < MaxOtherSteps) => ENABLED OtherTaskStep

\* C20: polling starts only if every year's submission returned a task id.
\* Once perform_us_city_query has returned with a year that failed to
\* submit, retrieve_results is never called, no task is polled, and
\* execute_query ends by reporting that no data can be obtained.
C20_PollingNeedsEveryTaskId ==
    /\ (Called("perform_us_city_query") /\ \E i \in 1 .. Len(replies) : SubmitFailed(i)) =>
          /\ ~Called("retrieve_results")
          /\ PollRequests = <<>>
          /\ raw_results = <<>>
          /\ result = Unset
          /\ pc = "done"
          /\ output[Len(output)] = NoDataMessage(selected_variable)
    /\ PollRequests # <<>> =>
          /\ Called("retrieve_results")
          /\ \A i \in 1 .. Len(handed) : handed[i] # None
          /\ \A i \in 1 .. Len(replies) : ~SubmitFailed(i)

C20_Witness ==
    /\ Called("perform_us_city_query")
    /\ pc = "done"
    /\ \E i \in 1 .. Len(replies) : SubmitFailed(i)
    /\ \E i \in 1 .. Len(replies) : SubmitSucceeded(i)
    /\ \E i \in 1 .. Len(handed) : handed[i] # None
    /\ output[Len(output)] = NoDataMessage(selected_variable)

\* The reply to request i says the polled task finished with error = true.
ErrorReplied(i) ==
    Terminal(i) /\ replies[i].body.has_error /\ replies[i].body.error

\* Some polled task has finished with error = true.
ErrorAccumulated == \E i \in 1 .. Len(replies) : ErrorReplied(i)

\* C21: a task that finishes with error = true does not stop the monitor
\* loop.  The loop goes on with the next task of the list, an exception
\* that ends it comes from a later reply, and the result is discarded and
\* the message printed only once every task has been answered "finished".
C21_ErrorDoesNotStopMonitor ==
    ErrorAccumulated =>
        /\ \A i \in 1 .. Len(replies) :
              ErrorReplied(i) =>
                  \E k \in 1 .. Len(raw_results) :
                      /\ raw_results[k].error
                      /\ Str(raw_results[k].taskid).s = requests[i].taskid
        /\ (Len(raw_results) < Len(handed) /\ pc # "raised") =>
              /\ pc \in {"monitor", "await_poll", "sleeping"}
              /\ taskids # <<>>
              /\ taskids[1] = handed[Len(raw_results) + 1]
              /\ result = Unset
              /\ TaskErrorLines = {}
        /\ pc = "raised" =>
              LET i == Len(replies)
              IN /\ IsPollUrl(requests[i])
                 /\ \/ ~replies[i].ok
                    \/ replies[i].body.status = "finished" /\ ~replies[i].body.has_error
        /\ (pc = "done" \/ result # Unset \/ TaskErrorLines # {}) =>
              /\ Called(MonitorExhausted)
              /\ result = NoneResult
              /\ Len(raw_results) = Len(handed)
              /\ \A k \in 1 .. Len(handed) :
                    \E i \in 1 .. Len(replies) :
                        Terminal(i) /\ requests[i].taskid = Str(handed[k]).s

C21_Witness ==
    /\ Called(MonitorExhausted)
    /\ result = NoneResult
    /\ Len(handed) = NumYears
    /\ raw_results[1].error
    /\ ~raw_results[NumYears].error
    /\ \E i \in 1 .. Len(replies) :
          /\ IsPollUrl(requests[i])
          /\ replies[i].ok
          /\ replies[i].body.status # "finished"
          /\ requests[i].taskid = Str(handed[NumYears]).s

\* C22: whatever is chosen and typed in the menu, execute_query runs only
\* with a selected variable of 1 or 2, the one main holds, and every
\* submission names the dataset of that variable.
C22_QueryOnlyWithVariableOneOrTwo ==
    pc \notin {"menu", "exited"} =>
        /\ selected_variable \in {1, 2}
        /\ main_selected_variable = NumVal(selected_variable)
        /\ selected_city.chosen
        /\ \A i \in 1 .. Len(requests) :
              IsSubmitUrl(requests[i]) =>
                  requests[i].dataset = PyItem(DATASETS, selected_variable - 1)

C22_Witness ==
    /\ pc = "menu"
    /\ selected_city.chosen
    /\ main_selected_variable = NumVal(0)
    /\ variable_message = ChooseBothFirstMessage
    /\ NotCalled

====
